---- MODULE Spec2Model ----
(***************************************************************************)
(* Model of the Looper core of music-visualizer (src/src/lib/Looper.ts):   *)
(* the per-frame tick, active-interval resolution, loudness interpolation  *)
(* and the volume queues.                                                  *)
(*                                                                         *)
(* JavaScript numbers are modelled as extended rationals [n, d]: d > 0 is  *)
(* a finite value in lowest terms, d = 0 is NaN (n = 0), +Infinity (n = 1) *)
(* or -Infinity (n = -1).  Floating-point rounding is not modelled.        *)
(***************************************************************************)
EXTENDS Integers, Sequences, FiniteSets, TLC

----------------------------------------------------------------------------
(* JavaScript number arithmetic *)

Abs(x) == IF x < 0 THEN -x ELSE x

Sgn(x) == IF x < 0 THEN -1 ELSE IF x > 0 THEN 1 ELSE 0

RECURSIVE GCD(_, _)
GCD(a, b) == IF b = 0 THEN a ELSE GCD(b, a % b)

Norm(n, d) ==
  IF d = 0 THEN [n |-> Sgn(n), d |-> 0]
  ELSE LET g == GCD(Abs(n), Abs(d))
           s == IF d < 0 THEN -1 ELSE 1
       IN [n |-> (s * n) \div g, d |-> (s * d) \div g]

Num(k) == [n |-> k, d |-> 1]

Frac(a, b) == Norm(a, b)

NaN == [n |-> 0, d |-> 0]

Zero == Num(0)

One == Num(1)

Half == Frac(1, 2)

IsNaN(x) == x.n = 0 /\ x.d = 0

IsFinite(x) == x.d > 0

Neg(x) == [n |-> -x.n, d |-> x.d]

Add(x, y) ==
  IF x.d = 0 \/ y.d = 0
  THEN IF IsNaN(x) \/ IsNaN(y) THEN NaN
       ELSE IF x.d = 0 /\ y.d = 0 THEN (IF x.n = y.n THEN x ELSE NaN)
       ELSE IF x.d = 0 THEN x ELSE y
  ELSE Norm(x.n * y.d + y.n * x.d, x.d * y.d)

Sub(x, y) == Add(x, Neg(y))

Mul(x, y) == Norm(x.n * y.n, x.d * y.d)

Recip(x) ==
  IF x.d = 0 THEN (IF x.n = 0 THEN NaN ELSE Zero)
  ELSE IF x.n = 0 THEN [n |-> 1, d |-> 0]
  ELSE Norm(x.d, x.n)

Div(x, y) == Mul(x, Recip(y))

Lt(x, y) ==
  IF IsNaN(x) \/ IsNaN(y) THEN FALSE
  ELSE IF x.d = 0 /\ y.d = 0 THEN x.n < y.n
  ELSE IF x.d = 0 THEN x.n < 0
  ELSE IF y.d = 0 THEN y.n > 0
  ELSE x.n * y.d < y.n * x.d

Le(x, y) == ~IsNaN(x) /\ ~IsNaN(y) /\ ~Lt(y, x)

MathMin(x, y) == IF IsNaN(x) \/ IsNaN(y) THEN NaN ELSE IF Lt(y, x) THEN y ELSE x

MathMax(x, y) == IF IsNaN(x) \/ IsNaN(y) THEN NaN ELSE IF Lt(x, y) THEN y ELSE x

MathRound(x) == IF x.d = 0 THEN x ELSE Num((2 * x.n + x.d) \div (2 * x.d))

----------------------------------------------------------------------------
(* Bounds and input sets *)

\* number of intervals synthesized per granularity (10000 in the source)
StaticCount == 3

MaxTicks == 3

MaxHooks == 1

MaxWatchers == 1

DefaultBase == 2000

Bases == {DefaultBase}

Timestamps == {0, 500, 1000, 1500}

QueueNames == {"a", "b"}

QueueConfigs ==
  { [totalSamples |-> 5, smoothing |-> 2, mode |-> "average"],
    [totalSamples |-> 2, smoothing |-> 1, mode |-> "max"],
    [totalSamples |-> 2, smoothing |-> 2, mode |-> "average"] }

OnNames == {"tatum", "segment", "beat"}

\* value a linear scale returns on a degenerate domain: 0.5 in current
\* d3-scale, 0 in d3-scale 1.x
DegenerateScale == {Zero, Half}

----------------------------------------------------------------------------
(* Timing maps *)

IntervalTypes == <<"tatums", "segments", "beats", "bars", "sections">>

TypeSet == {IntervalTypes[k] : k \in 1..Len(IntervalTypes)}

HookNames == {"tatum", "segment", "beat", "bar", "section"}

\* the key of state.activeIntervals that a hook name is about
TypeOfHook(h) == CASE h = "tatum" -> "tatums"
                   [] h = "segment" -> "segments"
                   [] h = "beat" -> "beats"
                   [] h = "bar" -> "bars"
                   [] h = "section" -> "sections"

\* element i (0-based) of a JavaScript array
At(arr, i) == arr[i + 1]

\* Number(array): an empty array converts to 0, an array of objects to NaN
ArrayToNumber(len) == IF len = 0 THEN Zero ELSE NaN

StaticDuration(base, type) ==
  CASE type = "beats" -> base
    [] type = "segments" -> Div(base, Num(2))
    [] type = "sections" -> Mul(base, Num(16))
    [] type = "bars" -> Mul(base, Num(4))
    [] type = "tatums" -> NaN   \* an array of two numbers, NaN in arithmetic

TatumDuration(base, i) ==
  IF i % 2 = 0 THEN MathRound(Mul(base, Div(Num(2), Num(3))))
  ELSE MathRound(Mul(base, Div(Num(1), Num(3))))

\* variant: tatums placed at a fixed stride like the other granularities
TatumStartStride(base, i) == Mul(Num(i), TatumDuration(base, 0))

RECURSIVE TatumStart(_, _)
TatumStart(base, i) ==
  IF i = 0 THEN Zero
  ELSE MathRound(Add(TatumStart(base, i - 1), TatumDuration(base, i - 1)))

StaticInterval(base, type, i) ==
  [ start |-> IF type = "tatums" THEN TatumStart(base, i)
              ELSE Mul(Num(i), ArrayToNumber(i)),
    duration |-> IF type = "tatums" THEN TatumDuration(base, i)
                 ELSE StaticDuration(base, type),
    loudness_start |-> Add(Num(-30), Mul(Div(Num(i), Num(StaticCount)), Num(20))),
    loudness_max |-> Add(Num(-25), Mul(Div(Num(i), Num(StaticCount)), Num(20))),
    loudness_max_time |-> Mul(Half, StaticDuration(base, type)) ]

buildStaticIntervals(base) ==
  [type \in TypeSet |-> [k \in 1..StaticCount |-> StaticInterval(base, type, k - 1)]]

\* an analysis interval as a track analysis supplies it
Interval(start, duration, ls, lm, lmt) ==
  [ start |-> start, duration |-> duration, loudness_start |-> ls,
    loudness_max |-> lm, loudness_max_time |-> lmt ]

Plain(start, duration) == Interval(Num(start), Num(duration), Zero, Zero, Zero)

\* a well-formed analysis supplied in place of the synthesized one
SuppliedAnalysis ==
  [type \in TypeSet |->
     CASE type = "segments" ->
            << Interval(Num(0), Num(1750), Zero, Frac(3, 5), Num(1500)),
               Interval(Num(1750), Num(500), Frac(1, 5), One, Num(250)),
               Interval(Num(2250), Num(500), Frac(2, 5), One, Num(250)) >>
       [] type = "tatums" ->
            << Plain(0, 750), Plain(750, 500), Plain(1250, 500), Plain(1750, 500) >>
       [] type = "beats" ->
            << Plain(0, 1000), Plain(1000, 1000), Plain(2000, 1000) >>
       [] type = "bars" ->
            << Plain(0, 1500), Plain(1500, 1500) >>
       [] type = "sections" ->
            << Plain(0, 1000) >> ]

----------------------------------------------------------------------------
(* Interval resolution and loudness interpolation *)

\* index of an active interval that has not been resolved yet ({}.index)
NoIndex == -1

EmptyInterval ==
  [ index |-> NoIndex, start |-> NaN, duration |-> NaN, loudness_start |-> NaN,
    loudness_max |-> NaN, loudness_max_time |-> NaN, elapsed |-> NaN,
    progress |-> NaN ]

\* variant: a scan that matches no interval falls back to the first one
determineIntervalFirst(analysis, progress) ==
  LET last == Len(analysis) - 1
      hit(i) == /\ i < last
                /\ Lt(At(analysis, i).start, progress)
                /\ Lt(progress, At(analysis, i + 1).start)
  IN IF \E i \in 0..last : hit(i)
     THEN CHOOSE i \in 0..last : hit(i) /\ \A j \in 0..(i - 1) : ~hit(j)
     ELSE 0

determineInterval(analysis, progress) ==
  LET last == Len(analysis) - 1
      hit(i) == \/ i = last
                \/ /\ Lt(At(analysis, i).start, progress)
                   /\ Lt(progress, At(analysis, i + 1).start)
  IN CHOOSE i \in 0..last : hit(i) /\ \A j \in 0..(i - 1) : ~hit(j)

\* { ...trackAnalysis[type][index], index }
Spread(analysis, index) ==
  LET a == At(analysis, index)
  IN [ index |-> index, start |-> a.start, duration |-> a.duration,
       loudness_start |-> a.loudness_start, loudness_max |-> a.loudness_max,
       loudness_max_time |-> a.loudness_max_time, elapsed |-> NaN,
       progress |-> NaN ]

interpolateNumber(a, b, t) == Add(Mul(a, Sub(One, t)), Mul(b, t))

Clamp01(x) == MathMax(MathMin(One, x), Zero)

\* variant: the end-of-track fallback is the segment's loudness_start
getVolumeFallbackStart(interval, segments) ==
  IF interval.index = NoIndex THEN Zero
  ELSE IF interval.index + 1 >= Len(segments) THEN interval.loudness_start
  ELSE LET next == At(segments, interval.index + 1).loudness_start
           current == Add(interval.start, interval.elapsed)
       IN IF Lt(interval.elapsed, interval.loudness_max_time)
          THEN interpolateNumber(interval.loudness_start, interval.loudness_max,
                 Clamp01(Div(interval.elapsed, interval.loudness_max_time)))
          ELSE LET start2 == Add(interval.start, interval.loudness_max_time)
                   elapsed2 == Sub(current, start2)
                   duration2 == Sub(interval.duration, interval.loudness_max_time)
               IN interpolateNumber(interval.loudness_max, next,
                    Clamp01(Div(elapsed2, duration2)))

getVolume(interval, segments) ==
  IF interval.index = NoIndex \/ interval.index + 1 >= Len(segments) THEN Zero
  ELSE LET next == At(segments, interval.index + 1).loudness_start
           current == Add(interval.start, interval.elapsed)
       IN IF Lt(interval.elapsed, interval.loudness_max_time)
          THEN interpolateNumber(interval.loudness_start, interval.loudness_max,
                 Clamp01(Div(interval.elapsed, interval.loudness_max_time)))
          ELSE LET start2 == Add(interval.start, interval.loudness_max_time)
                   elapsed2 == Sub(current, start2)
                   duration2 == Sub(interval.duration, interval.loudness_max_time)
               IN interpolateNumber(interval.loudness_max, next,
                    Clamp01(Div(elapsed2, duration2)))

----------------------------------------------------------------------------
(* Volume queues *)

RECURSIVE SumSeq(_)
SumSeq(values) ==
  IF values = <<>> THEN Zero ELSE Add(Head(values), SumSeq(Tail(values)))

\* average() of utils/array: the arithmetic mean
average(values) == Div(SumSeq(values), Num(Len(values)))

\* d3-array min and max skip NaN; no comparable value gives undefined
d3min(values) ==
  LET idx == {k \in 1..Len(values) : ~IsNaN(values[k])}
  IN IF idx = {} THEN NaN
     ELSE values[CHOOSE k \in idx : \A m \in idx : Le(values[k], values[m])]

d3max(values) ==
  LET idx == {k \in 1..Len(values) : ~IsNaN(values[k])}
  IN IF idx = {} THEN NaN
     ELSE values[CHOOSE k \in idx : \A m \in idx : Le(values[m], values[k])]

\* scaleLinear().domain([lo, hi])(x) with the default range [0, 1], unclamped
scaleLinear(lo, hi, x, degenerate) ==
  LET width == Sub(hi, lo)
  IN IF IsNaN(width) THEN NaN
     ELSE IF width = Zero THEN degenerate
     ELSE Div(Sub(x, lo), width)

\* values.slice(0, count)
Slice(values, count) ==
  SubSeq(values, 1, IF count < Len(values) THEN count ELSE Len(values))

\* variant: shift() instead of pop(), evicting the newest samples
RetainOldest(values, volume, totalSamples) ==
  LET all == <<volume>> \o values
  IN IF Len(all) > totalSamples
     THEN SubSeq(all, Len(all) - totalSamples + 1, Len(all))
     ELSE all

\* values.unshift(volume) followed by pop() while longer than totalSamples
Retain(values, volume, totalSamples) == Slice(<<volume>> \o values, totalSamples)

BootstrapValues == <<Zero, One>>

NewQueue(config) ==
  [ totalSamples |-> config.totalSamples, smoothing |-> config.smoothing,
    values |-> BootstrapValues, volume |-> Half, average |-> Half,
    min |-> Zero, max |-> One, mode |-> config.mode ]

\* variant: the statistics are reset but the samples are kept
ResetQueueKeepValues(queue) ==
  [queue EXCEPT !.volume = Half, !.average = Half, !.min = Zero, !.max = One]

ResetQueue(queue) ==
  [queue EXCEPT !.volume = Half, !.average = Half, !.min = Zero, !.max = One,
                !.values = BootstrapValues]

\* variant: the normalization range always ends at max, whatever the mode
ProcessQueueMaxOnly(queue, volume, degenerate) ==
  LET values == Retain(queue.values, volume, queue.totalSamples)
      lo == d3min(values)
      hi == d3max(values)
      latest == average(Slice(values, queue.smoothing))
  IN [queue EXCEPT !.values = values, !.average = average(values), !.min = lo,
                   !.max = hi, !.volume = scaleLinear(lo, hi, latest, degenerate)]

\* the body of the loop of processVolumeQueues for one queue
ProcessQueue(queue, volume, degenerate) ==
  LET values == Retain(queue.values, volume, queue.totalSamples)
      avg == average(values)
      lo == d3min(values)
      hi == d3max(values)
      latest == average(Slice(values, queue.smoothing))
  IN [queue EXCEPT !.values = values, !.average = avg, !.min = lo, !.max = hi,
                   !.volume = scaleLinear(lo, IF queue.mode = "average" THEN avg ELSE hi,
                                          latest, degenerate)]

----------------------------------------------------------------------------
(* State *)

VARIABLES
  trackAnalysis,         \* state.trackAnalysis
  activeIntervals,       \* state.activeIntervals
  trackProgress,         \* state.trackProgress
  initialStart,          \* state.initialStart
  initialTrackProgress,  \* state.initialTrackProgress
  active,                \* state.active
  hooks,                 \* this.hooks
  volumeQueues,          \* state.volumeQueues
  pending,               \* callbacks registered with requestAnimationFrame, not yet run
  pc,                    \* position inside tick, "idle" between frames,
                         \* "constructing" inside the Visualizer constructor
  now,                   \* timestamp of the current (or latest) frame
  ticks,                 \* frames run so far
  prevIndex,             \* per type, the index held when the current tick began
  replaced,              \* per type, assignments to activeIntervals[type] in the current tick
  watcherCalls,          \* per type, watcher invocations in the current tick
  hookCalls,             \* hook callbacks invoked in the current tick, in order
  sample,                \* result of getVolume in the current tick
  sampled,               \* getVolume calls made by the current tick
  pushedLog,             \* per queue, every sample since (re)initialisation, newest first
  lastCall,              \* latest call of getVolumeQueue / resetVolumeQueues
  watchers,              \* per key of state, the methods registered with state.watch
  sketch                 \* the Visualizer's sketch: created, calls of start and stop

vars == << trackAnalysis, activeIntervals, trackProgress, initialStart,
           initialTrackProgress, active, hooks, volumeQueues, pending, pc, now,
           ticks, prevIndex, replaced, watcherCalls, hookCalls, sample, sampled,
           pushedLog, lastCall, watchers, sketch >>

host == << watchers, sketch >>

clock == << initialStart, initialTrackProgress >>

tickLog == << prevIndex, replaced, watcherCalls, hookCalls, sample, sampled >>

NoCall == [op |-> "none"]

requestAnimationFrame(registered) == registered + 1

WatchKeys == {"active"}

NoSketch == [created |-> FALSE, starts |-> 0, stops |-> 0]

\* the watcher Visualizer.watch registers on 'active'
SketchFollowsActive(sk, val) ==
  IF val = TRUE THEN [sk EXCEPT !.starts = @ + 1] ELSE [sk EXCEPT !.stops = @ + 1]

\* the sketch after the methods watching a key have run for an assigned value
RECURSIVE RunWatchers(_, _, _)
RunWatchers(methods, sk, val) ==
  IF methods = <<>> THEN sk
  ELSE RunWatchers(Tail(methods),
                   IF Head(methods) = "visualizer" THEN SketchFollowsActive(sk, val)
                   ELSE sk,
                   val)

\* variant: the constructor never assigns state.active
ConstructorLeavesInactive == FALSE

\* constructor, line 94
ActivatedByConstructor == TRUE

\* this.sync.fixed: Looper defines no such property
SyncFixed == FALSE

\* state after the constructor returns, analysis being state.trackAnalysis
Constructed(analysis) ==
  /\ trackAnalysis = analysis
  /\ activeIntervals = [t \in TypeSet |-> EmptyInterval]
  /\ trackProgress = Zero
  /\ initialStart = Zero
  /\ initialTrackProgress = Zero
  /\ active = ActivatedByConstructor
  /\ watchers = [key \in WatchKeys |-> <<>>]
  /\ sketch = RunWatchers(<<>>, NoSketch, ActivatedByConstructor)
  /\ hooks = [h \in HookNames |-> <<>>]
  /\ volumeQueues = <<>>
  /\ pending = requestAnimationFrame(0)
  /\ now = 0
  /\ ticks = 0
  /\ prevIndex = [t \in TypeSet |-> NoIndex]
  /\ replaced = [t \in TypeSet |-> 0]
  /\ watcherCalls = [t \in TypeSet |-> 0]
  /\ hookCalls = <<>>
  /\ sample = Zero
  /\ sampled = 0
  /\ pushedLog = <<>>
  /\ lastCall = NoCall

\* the constructor synthesizes the analysis from the base duration
Init ==
  /\ \E base \in Bases : Constructed(buildStaticIntervals(Num(base)))
  /\ pc = "idle"

\* the same engine over every analysis considered: the synthesized one and a
\* well-formed track analysis in its place
InitSupplied ==
  \/ Init
  \/ Constructed(SuppliedAnalysis) /\ pc = "idle"

\* new Visualizer(): its constructor has made the Looper (Visualizer.ts lines
\* 40-44) and has yet to run lines 46-66
InitVisualizer ==
  /\ \E base \in Bases : Constructed(buildStaticIntervals(Num(base)))
  /\ pc = "constructing"

----------------------------------------------------------------------------
(* setActiveIntervals *)

ResolvedIndex(type) == determineInterval(trackAnalysis[type], trackProgress)

\* variant: the entry is assigned on every tick
IndexChangedAlways(type) == TRUE

\* the test guarding the assignment to activeIntervals[type]
IndexChanged(type) == ResolvedIndex(type) # activeIntervals[type].index

\* variant: elapsed is measured from the start of the interval held before
\* the assignment
ResolvedStaleElapsed(type) ==
  LET held == IF IndexChanged(type)
              THEN Spread(trackAnalysis[type], ResolvedIndex(type))
              ELSE activeIntervals[type]
      elapsed == Sub(trackProgress, activeIntervals[type].start)
  IN [held EXCEPT !.elapsed = elapsed, !.progress = Div(elapsed, held.duration)]

\* activeIntervals[type] once the loop body has run for type
Resolved(type) ==
  LET held == IF IndexChanged(type)
              THEN Spread(trackAnalysis[type], ResolvedIndex(type))
              ELSE activeIntervals[type]
      elapsed == Sub(trackProgress, held.start)
  IN [held EXCEPT !.elapsed = elapsed, !.progress = Div(elapsed, held.duration)]

\* the hook list that the watcher installed by subscribeHooks for a type runs
WatcherHookList(type) == "segment"

\* callbacks run by the watcher of a type when activeIntervals[type] is assigned
WatcherRun(type) ==
  LET list == WatcherHookList(type)
  IN [k \in 1..Len(hooks[list]) |->
        [hook |-> list, pos |-> k, type |-> type, index |-> ResolvedIndex(type)]]

RECURSIVE HookCallsFrom(_)
HookCallsFrom(k) ==
  IF k > Len(IntervalTypes) THEN <<>>
  ELSE (IF IndexChanged(IntervalTypes[k]) THEN WatcherRun(IntervalTypes[k]) ELSE <<>>)
       \o HookCallsFrom(k + 1)

----------------------------------------------------------------------------
(* processVolumeQueues *)

\* variant: every queue after the first is fed the normalized volume of a
\* queue instead of the shared sample
QueueSampleOwn(queues, name, volume) ==
  IF name = CHOOSE first \in DOMAIN queues : TRUE THEN volume
  ELSE queues[name].volume

\* the sample pushed to the queue called name on a tick whose sample is volume
QueueSample(queues, name, volume) == volume

processVolumeQueues(queues, volume, degenerate) ==
  [name \in DOMAIN queues |->
     ProcessQueue(queues[name], QueueSample(queues, name, volume), degenerate)]

----------------------------------------------------------------------------
(* Operations *)

\* variant: tick does not register the next frame
TickRescheduleSkipped(registered) == registered

\* tick, line 288
TickReschedule(registered) == requestAnimationFrame(registered)

\* the host scheduler runs the pending callback; tick re-registers itself
TickBegin(t) ==
  /\ pc = "idle"
  /\ pending > 0
  /\ ticks < MaxTicks
  /\ t >= now
  /\ pending' = TickReschedule(pending - 1)
  /\ now' = t
  /\ pc' = "progress"
  /\ prevIndex' = [type \in TypeSet |-> activeIntervals[type].index]
  /\ replaced' = [type \in TypeSet |-> 0]
  /\ watcherCalls' = [type \in TypeSet |-> 0]
  /\ hookCalls' = <<>>
  /\ sampled' = 0
  /\ lastCall' = NoCall
  /\ UNCHANGED << host, trackAnalysis, activeIntervals, trackProgress, clock, active,
                  hooks, volumeQueues, ticks, sample, pushedLog >>

\* tick, line 289
TickTrackProgress ==
  /\ pc = "progress"
  /\ trackProgress' = Add(Sub(Num(now), initialStart), initialTrackProgress)
  /\ pc' = "intervals"
  /\ UNCHANGED << host, trackAnalysis, activeIntervals, clock, active, hooks,
                  volumeQueues, pending, now, ticks, tickLog, pushedLog, lastCall >>

\* tick, line 290
TickSetActiveIntervals ==
  /\ pc = "intervals"
  /\ activeIntervals' = [type \in TypeSet |-> Resolved(type)]
  /\ replaced' = [type \in TypeSet |-> IF IndexChanged(type) THEN 1 ELSE 0]
  /\ watcherCalls' = [type \in TypeSet |-> IF IndexChanged(type) THEN 1 ELSE 0]
  /\ hookCalls' = HookCallsFrom(1)
  /\ pc' = "queues"
  /\ UNCHANGED << host, trackAnalysis, trackProgress, clock, active, hooks, volumeQueues,
                  pending, now, ticks, prevIndex, sample, sampled, pushedLog,
                  lastCall >>

\* tick, line 291
TickProcessVolumeQueues ==
  /\ pc = "queues"
  /\ \E degenerate \in DegenerateScale :
       LET volume == getVolume(activeIntervals["segments"], trackAnalysis["segments"])
       IN /\ sample' = volume
          /\ sampled' = sampled + 1
          /\ volumeQueues' = processVolumeQueues(volumeQueues, volume, degenerate)
          /\ pushedLog' = [name \in DOMAIN pushedLog |-> <<volume>> \o pushedLog[name]]
  /\ pc' = "idle"
  /\ ticks' = ticks + 1
  /\ UNCHANGED << host, trackAnalysis, activeIntervals, trackProgress, clock, active,
                  hooks, pending, now, prevIndex, replaced, watcherCalls,
                  hookCalls, lastCall >>

registerQueue(name, config) ==
  /\ pc = "idle"
  /\ volumeQueues' = [n \in DOMAIN volumeQueues \cup {name} |->
                        IF n = name THEN NewQueue(config) ELSE volumeQueues[n]]
  /\ pushedLog' = [n \in DOMAIN pushedLog \cup {name} |->
                     IF n = name THEN BootstrapValues ELSE pushedLog[n]]
  /\ lastCall' = NoCall
  /\ UNCHANGED << host, trackAnalysis, activeIntervals, trackProgress, clock, active,
                  hooks, pending, pc, now, ticks, tickLog >>

resetVolumeQueues ==
  /\ pc = "idle"
  /\ volumeQueues' = [n \in DOMAIN volumeQueues |-> ResetQueue(volumeQueues[n])]
  /\ pushedLog' = [n \in DOMAIN pushedLog |-> BootstrapValues]
  /\ lastCall' = [op |-> "resetVolumeQueues", before |-> volumeQueues]
  /\ UNCHANGED << host, trackAnalysis, activeIntervals, trackProgress, clock, active,
                  hooks, pending, pc, now, ticks, tickLog >>

\* outcome of this.state.volumeQueues[name].volume
QueueLookup(queues, name) ==
  IF name \in DOMAIN queues
  THEN [threw |-> FALSE, value |-> queues[name].volume]
  ELSE [threw |-> TRUE, value |-> NaN]   \* TypeError: reading 'volume' of undefined

getVolumeQueue(name) ==
  /\ pc = "idle"
  /\ lastCall' = [op |-> "getVolumeQueue", name |-> name,
                  result |-> QueueLookup(volumeQueues, name)]
  /\ UNCHANGED << host, trackAnalysis, activeIntervals, trackProgress, clock, active,
                  hooks, volumeQueues, pending, pc, now, ticks, tickLog, pushedLog >>

HookCount == Len(hooks["tatum"]) + Len(hooks["segment"]) + Len(hooks["beat"])
             + Len(hooks["bar"]) + Len(hooks["section"])

on(interval, method) ==
  /\ pc = "idle"
  /\ HookCount < MaxHooks
  /\ hooks' = [hooks EXCEPT ![interval] = Append(@, method)]
  /\ lastCall' = NoCall
  /\ UNCHANGED << host, trackAnalysis, activeIntervals, trackProgress, clock, active,
                  volumeQueues, pending, pc, now, ticks, tickLog, pushedLog >>

Next ==
  \/ \E t \in Timestamps : TickBegin(t)
  \/ TickTrackProgress
  \/ TickSetActiveIntervals
  \/ TickProcessVolumeQueues
  \/ \E name \in QueueNames, config \in QueueConfigs : registerQueue(name, config)
  \/ resetVolumeQueues
  \/ \E name \in QueueNames : getVolumeQueue(name)
  \/ \E interval \in OnNames : on(interval, "cb")

Spec == Init /\ [][Next]_vars

SpecSupplied == InitSupplied /\ [][Next]_vars

\* Looper.watch
watch(key, method) ==
  /\ pc = "idle"
  /\ Len(watchers[key]) < MaxWatchers
  /\ watchers' = [watchers EXCEPT ![key] = Append(@, method)]
  /\ lastCall' = NoCall
  /\ UNCHANGED << sketch, trackAnalysis, activeIntervals, trackProgress, clock,
                  active, hooks, volumeQueues, pending, pc, now, ticks, tickLog,
                  pushedLog >>

\* the rest of the Visualizer constructor without a parent, Visualizer.ts
\* lines 46-66
VisualizerConstructor(syncOnly) ==
  /\ pc = "constructing"
  /\ watchers' = IF syncOnly THEN watchers
                 ELSE [watchers EXCEPT !["active"] = Append(@, "visualizer")]
  /\ sketch' = IF syncOnly THEN sketch
               ELSE LET made == [NoSketch EXCEPT !.created = TRUE]
                    IN IF SyncFixed THEN [made EXCEPT !.starts = @ + 1] ELSE made
  /\ pc' = "idle"
  /\ UNCHANGED << trackAnalysis, activeIntervals, trackProgress, clock, active,
                  hooks, volumeQueues, pending, now, ticks, tickLog, pushedLog,
                  lastCall >>

NextVisualizer ==
  \/ Next
  \/ \E key \in WatchKeys : watch(key, "cb")
  \/ \E syncOnly \in BOOLEAN : VisualizerConstructor(syncOnly)

SpecVisualizer == InitVisualizer /\ [][NextVisualizer]_vars

(* getVolume called with an interval of the caller's choosing *)

VolumeDuration == 4

LoudnessPairs == { << Num(-30), Num(-25) >>, << Zero, Frac(3, 5) >>, << Num(-5), Num(-30) >> }

\* interval arguments: a segment with a successor, loudness_max_time at 0,
\* at half the duration and at the duration, elapsed from before the start
\* to past the end
VolumeIntervals ==
  { [ index |-> index, start |-> Zero, duration |-> Num(VolumeDuration),
      loudness_start |-> pair[1], loudness_max |-> pair[2],
      loudness_max_time |-> Mul(part, Num(VolumeDuration)),
      elapsed |-> Num(e), progress |-> Div(Num(e), Num(VolumeDuration)) ] :
    index \in 0..(StaticCount - 2), pair \in LoudnessPairs,
    part \in {Zero, Half, One}, e \in -1..(VolumeDuration + 1) }

callGetVolume(interval) ==
  /\ pc = "idle"
  /\ lastCall' = [op |-> "getVolume", interval |-> interval,
                  result |-> getVolume(interval, trackAnalysis["segments"])]
  /\ UNCHANGED << host, trackAnalysis, activeIntervals, trackProgress, clock, active,
                  hooks, volumeQueues, pending, pc, now, ticks, tickLog, pushedLog >>

NextVolume == \E interval \in VolumeIntervals : callGetVolume(interval)

SpecVolume == Init /\ [][NextVolume]_vars

TypeOK ==
  /\ pc \in {"idle", "progress", "intervals", "queues", "constructing"}
  /\ pending \in Nat
  /\ ticks \in 0..MaxTicks
  /\ DOMAIN volumeQueues \subseteq QueueNames
  /\ DOMAIN pushedLog = DOMAIN volumeQueues

----------------------------------------------------------------------------
(* Properties *)

\* setActiveIntervals has run for the current value of trackProgress
IntervalsResolved == pc = "queues" \/ (ticks > 0 /\ pc \in {"idle", "progress"})

\* the starts of a sequence are finite and strictly increasing
Ordered(analysis) ==
  /\ \A k \in 1..Len(analysis) : IsFinite(analysis[k].start)
  /\ \A k \in 1..(Len(analysis) - 1) : Lt(analysis[k].start, analysis[k + 1].start)

\* i covers p under the half-open rule start[i] <= p < start[i+1]
Covers(analysis, i, p) ==
  /\ Le(At(analysis, i).start, p)
  /\ i = Len(analysis) - 1 \/ Lt(p, At(analysis, i + 1).start)

\* C1: for an ordered sequence and a progress value at or after its first
\* start, the resolved index is the unique i with start[i] <= p < start[i+1]
\* (the last index when no successor starts beyond p); a progress equal to
\* start[i] resolves to i.
C1_HalfOpenResolution ==
  IntervalsResolved =>
    \A type \in TypeSet :
      (Ordered(trackAnalysis[type]) /\ Le(At(trackAnalysis[type], 0).start, trackProgress))
        => Covers(trackAnalysis[type], activeIntervals[type].index, trackProgress)

\* callbacks of the current tick that went to entry pos of the list of a hook
CallsTo(hook, pos) ==
  {j \in 1..Len(hookCalls) : hookCalls[j].hook = hook /\ hookCalls[j].pos = pos}

\* C2: a callback registered with on(g, cb) is invoked on a tick if and only
\* if the active index of granularity g changed on that tick, with the new
\* active interval of g, and never for a change of another granularity.
C2_HookPerGranularity ==
  pc = "queues" =>
    \A hook \in HookNames : \A pos \in 1..Len(hooks[hook]) :
      LET type == TypeOfHook(hook)
      IN /\ Cardinality(CallsTo(hook, pos))
              = (IF activeIntervals[type].index # prevIndex[type] THEN 1 ELSE 0)
         /\ \A j \in CallsTo(hook, pos) :
              /\ hookCalls[j].type = type
              /\ hookCalls[j].index = activeIntervals[type].index

\* C3: on a tick each activeIntervals entry is replaced, and its watcher
\* notified, exactly once when the index resolved for the tick's progress
\* differs from the index held before the tick, and not at all otherwise;
\* the update of elapsed and progress replaces and notifies nothing.
C3_ReplaceOnIndexChange ==
  pc = "queues" =>
    \A type \in TypeSet :
      LET changes == IF determineInterval(trackAnalysis[type], trackProgress)
                          # prevIndex[type] THEN 1 ELSE 0
      IN /\ replaced[type] = changes
         /\ watcherCalls[type] = changes
         /\ activeIntervals[type].elapsed = Sub(trackProgress, activeIntervals[type].start)

\* C3 witness: a later tick replaces one granularity and only refreshes
\* elapsed of another
C3_Witness ==
  /\ pc = "queues"
  /\ \E type \in TypeSet :
       replaced[type] = 1 /\ prevIndex[type] # NoIndex
  /\ \E type \in TypeSet :
       /\ replaced[type] = 0
       /\ IsFinite(activeIntervals[type].elapsed)
       /\ activeIntervals[type].elapsed # Zero

\* C4: tick registers the next frame before anything else, so one callback
\* is pending in every state, between frames and inside a tick alike.
C4_OnePendingTick == pending = 1

\* C4 witness: inside a later tick, registered again and trackProgress not
\* yet recomputed
C4_Witness == pc = "progress" /\ ticks >= 1 /\ pending = 1

\* C5: getVolumeQueue of a name that was never registered returns without
\* throwing.
C5_UnregisteredLookupDoesNotThrow ==
  (lastCall.op = "getVolumeQueue" /\ lastCall.name \notin DOMAIN volumeQueues)
    => ~lastCall.result.threw

\* samples pushed to a queue since it was registered or reset
Pushed(name) == Len(pushedLog[name]) - Len(BootstrapValues)

Smaller(a, b) == IF a < b THEN a ELSE b

\* C6: once a queue of capacity C has been ticked it never retains more than
\* C samples (in particular after more than C ticks), and what it retains is
\* the newest C of everything pushed, bootstrap samples included, newest
\* first: the oldest sample is always the one evicted.
C6_CapacityAndFifo ==
  \A name \in DOMAIN volumeQueues :
    LET queue == volumeQueues[name]
        log == pushedLog[name]
    IN Pushed(name) >= 1 =>
         /\ Len(queue.values) <= queue.totalSamples
         /\ queue.values = SubSeq(log, 1, Smaller(queue.totalSamples, Len(log)))

\* C6 witness: a queue of capacity 2 after 3 ticks with distinct samples
C6_Witness ==
  \E name \in DOMAIN volumeQueues :
    /\ volumeQueues[name].totalSamples = 2
    /\ Pushed(name) > volumeQueues[name].totalSamples
    /\ pushedLog[name][1] # pushedLog[name][2]
    /\ pushedLog[name][2] # pushedLog[name][3]
    /\ Len(volumeQueues[name].values) = 2

\* C7: after resetVolumeQueues every registered queue has min 0, max 1,
\* average 0.5, volume 0.5 and exactly the bootstrap samples 0 and 1, with
\* capacity, smoothing window and mode as before the reset.
C7_ResetRestoresBootstrap ==
  lastCall.op = "resetVolumeQueues" =>
    /\ DOMAIN volumeQueues = DOMAIN lastCall.before
    /\ \A name \in DOMAIN volumeQueues :
         LET queue == volumeQueues[name]
             before == lastCall.before[name]
         IN /\ queue.min = Zero /\ queue.max = One
            /\ queue.average = Half /\ queue.volume = Half
            /\ queue.values = <<Zero, One>>
            /\ queue.totalSamples = before.totalSamples
            /\ queue.smoothing = before.smoothing
            /\ queue.mode = before.mode

\* C7 witness: a reset of a queue that had been ticked away from bootstrap
C7_Witness ==
  /\ lastCall.op = "resetVolumeQueues"
  /\ \E name \in DOMAIN volumeQueues :
       /\ lastCall.before[name].values # <<Zero, One>>
       /\ lastCall.before[name].volume # Half
       /\ lastCall.before[name].min # Zero

\* C8: a tick samples the volume once and prepends that one sample to every
\* registered queue; two queues of equal capacity that have been ticked
\* equally often since they were registered or reset hold the same samples.
C8_OneSharedSample ==
  /\ sampled <= 1
  /\ (pc = "idle" /\ ticks > 0) => sampled = 1
  /\ \A name \in DOMAIN volumeQueues :
       Pushed(name) >= 1 => volumeQueues[name].values[1] = sample
  /\ \A a \in DOMAIN volumeQueues, b \in DOMAIN volumeQueues :
       (/\ volumeQueues[a].totalSamples = volumeQueues[b].totalSamples
        /\ Pushed(a) = Pushed(b))
         => volumeQueues[a].values = volumeQueues[b].values

\* C8 witness: two queues of one capacity, two ticks later, equal and holding
\* two different samples
C8_Witness ==
  /\ DOMAIN volumeQueues = {"a", "b"}
  /\ volumeQueues["a"].totalSamples = volumeQueues["b"].totalSamples
  /\ Pushed("a") >= 2 /\ Pushed("b") = Pushed("a")
  /\ volumeQueues["a"].values = volumeQueues["b"].values
  /\ volumeQueues["a"].values[1] # volumeQueues["a"].values[2]
  /\ volumeQueues["a"].values[1] # Zero

\* v is the least (greatest) of the values
IsMinOf(v, values) ==
  (\E k \in 1..Len(values) : values[k] = v) /\ \A k \in 1..Len(values) : Le(v, values[k])

IsMaxOf(v, values) ==
  (\E k \in 1..Len(values) : values[k] = v) /\ \A k \in 1..Len(values) : Le(values[k], v)

MeanOf(values) == Div(SumSeq(values), Num(Len(values)))

\* mean of the smoothing most recent retained samples
Latest(queue) ==
  MeanOf(SubSeq(queue.values, 1, Smaller(queue.smoothing, Len(queue.values))))

Upper(queue) == IF queue.mode = "average" THEN queue.average ELSE queue.max

StatsOfRetained(queue) ==
  /\ IsMinOf(queue.min, queue.values)
  /\ IsMaxOf(queue.max, queue.values)
  /\ queue.average = MeanOf(queue.values)

\* the queue of the scenario: capacity 5, smoothing 2, mode average, after
\* the samples 0.2, 0.4, 0.6
ScenarioQueue(name) ==
  /\ volumeQueues[name].totalSamples = 5
  /\ volumeQueues[name].smoothing = 2
  /\ volumeQueues[name].mode = "average"
  /\ pushedLog[name] = <<Frac(3, 5), Frac(2, 5), Frac(1, 5), Zero, One>>

\* C9 as stated: after a tick min, max and average are those of the retained
\* samples and volume = (m - min) / (upper - min); the scenario queue
\* retains [0.6, 0.4, 0.2, 1, 0].
C9_NormalizedVolume ==
  \A name \in DOMAIN volumeQueues :
    LET queue == volumeQueues[name]
    IN Pushed(name) >= 1 =>
         /\ StatsOfRetained(queue)
         /\ queue.volume = Div(Sub(Latest(queue), queue.min),
                               Sub(Upper(queue), queue.min))
         /\ ScenarioQueue(name) =>
              queue.values = <<Frac(3, 5), Frac(2, 5), Frac(1, 5), One, Zero>>

\* C9 amended: the quotient is the volume whenever upper differs from min;
\* when all retained samples are equal the scale is degenerate and volume is
\* its constant; the scenario queue retains [0.6, 0.4, 0.2, 0, 1] and reports
\* 0.5 / 0.44 = 25/22.
C9_NormalizedVolumeUnlessDegenerate ==
  \A name \in DOMAIN volumeQueues :
    LET queue == volumeQueues[name]
    IN Pushed(name) >= 1 =>
         /\ StatsOfRetained(queue)
         /\ Upper(queue) # queue.min =>
              queue.volume = Div(Sub(Latest(queue), queue.min),
                                 Sub(Upper(queue), queue.min))
         /\ Upper(queue) = queue.min => queue.volume \in DegenerateScale
         /\ ScenarioQueue(name) =>
              /\ queue.values = <<Frac(3, 5), Frac(2, 5), Frac(1, 5), Zero, One>>
              /\ queue.average = Frac(11, 25)
              /\ queue.volume = Frac(25, 22)

\* C9 witness: the scenario queue after its three samples
C9_Witness ==
  \E name \in DOMAIN volumeQueues :
    ScenarioQueue(name) /\ volumeQueues[name].volume = Frac(25, 22)

\* loudness of a segment at its elapsed time, next being the loudness_start
\* of its successor
Loudness(segment, next) ==
  LET clamp(x) == IF Lt(x, Zero) THEN Zero ELSE IF Lt(One, x) THEN One ELSE x
  IN IF Lt(segment.elapsed, segment.loudness_max_time)
     THEN Add(segment.loudness_start,
              Mul(Sub(segment.loudness_max, segment.loudness_start),
                  clamp(Div(segment.elapsed, segment.loudness_max_time))))
     ELSE Add(segment.loudness_max,
              Mul(Sub(next, segment.loudness_max),
                  clamp(Div(Sub(segment.elapsed, segment.loudness_max_time),
                            Sub(segment.duration, segment.loudness_max_time)))))

\* C10: getVolume returns exactly 0 when the active segment is the last of
\* the sequence, whatever its elapsed value, and the interpolated loudness
\* whenever a successor segment exists.
C10_ZeroOnlyWithoutSuccessor ==
  (pc = "idle" /\ ticks > 0) =>
    LET segment == activeIntervals["segments"]
        segments == trackAnalysis["segments"]
    IN IF segment.index = Len(segments) - 1
       THEN sample = Zero
       ELSE sample = Loudness(segment, At(segments, segment.index + 1).loudness_start)

\* C10 witness: the last segment is active at a finite, non-zero elapsed time
\* and the sample is 0
C10_Witness ==
  /\ pc = "idle" /\ ticks > 0
  /\ activeIntervals["segments"].index = Len(trackAnalysis["segments"]) - 1
  /\ IsFinite(activeIntervals["segments"].elapsed)
  /\ activeIntervals["segments"].elapsed # Zero
  /\ sample = Zero

\* no interval of the sequence starts beyond p
NoSuccessorBeyond(analysis, p) ==
  \A k \in 1..Len(analysis) : ~Lt(p, analysis[k].start)

\* C11: for a progress at or beyond the nominal end of a sequence, and for
\* any progress that no interval starts beyond, the resolver returns the last
\* index and the tick completes with elapsed and progress computed from the
\* last interval.
C11_LastIndexPastTheEnd ==
  IntervalsResolved =>
    \A type \in TypeSet :
      LET analysis == trackAnalysis[type]
          last == analysis[Len(analysis)]
      IN NoSuccessorBeyond(analysis, trackProgress) =>
           /\ activeIntervals[type].index = Len(analysis) - 1
           /\ activeIntervals[type].start = last.start
           /\ activeIntervals[type].elapsed = Sub(trackProgress, last.start)
           /\ activeIntervals[type].progress
                = Div(Sub(trackProgress, last.start), last.duration)

\* C11 witness: a tick past the nominal end of an ordered sequence, progress
\* within the last interval above 1
C11_Witness ==
  /\ pc = "idle" /\ ticks > 0
  /\ \E type \in TypeSet :
       LET analysis == trackAnalysis[type]
           last == analysis[Len(analysis)]
       IN /\ Ordered(analysis)
          /\ Lt(Add(last.start, last.duration), trackProgress)
          /\ activeIntervals[type].index = Len(analysis) - 1
          /\ Lt(One, activeIntervals[type].progress)

\* the map is the one buildStaticIntervals makes from base
BuiltFrom(base) == trackAnalysis = buildStaticIntervals(Num(base))

\* duration of a uniformly placed granularity for a base duration
StrideOf(base, type) ==
  CASE type = "segments" -> Frac(base, 2)
    [] type = "beats" -> Num(base)
    [] type = "bars" -> Num(base * 4)
    [] type = "sections" -> Num(base * 16)

\* consecutive starts never decrease
NonDecreasing(analysis) ==
  \A k \in 1..(Len(analysis) - 1) : Le(analysis[k].start, analysis[k + 1].start)

\* C12: in the map built from a base duration, interval i of segments, beats,
\* bars and sections starts at i times the duration of its granularity
\* (base/2, base, base*4, base*16), and every sequence, tatums included, is
\* ordered by non-decreasing start.
C12_UniformStarts ==
  \A base \in Bases :
    BuiltFrom(base) =>
      /\ \A type \in {"segments", "beats", "bars", "sections"} :
           \A i \in 0..(Len(trackAnalysis[type]) - 1) :
             /\ At(trackAnalysis[type], i).duration = StrideOf(base, type)
             /\ At(trackAnalysis[type], i).start = Mul(Num(i), StrideOf(base, type))
      /\ \A type \in TypeSet : NonDecreasing(trackAnalysis[type])

\* tatum starts accumulate: 0, then previous start + previous duration
CumulativeTatums ==
  LET tatums == trackAnalysis["tatums"]
  IN /\ At(tatums, 0).start = Zero
     /\ \A i \in 1..(Len(tatums) - 1) :
          At(tatums, i).start = Add(At(tatums, i - 1).start, At(tatums, i - 1).duration)

\* share of the base duration that tatum i lasts
TatumShare(base, i) == IF i % 2 = 0 THEN Frac(2 * base, 3) ELSE Frac(base, 3)

\* k is x rounded to the nearest integer, halves upwards
IsRounded(k, x) ==
  /\ k.d = 1
  /\ Le(k, Add(x, Half))
  /\ Lt(Add(x, Half), Add(k, One))

\* the active tatum spans trackProgress
TatumSpansProgress ==
  LET tatum == activeIntervals["tatums"]
  IN /\ Le(tatum.start, trackProgress)
     /\ Lt(trackProgress, Add(tatum.start, tatum.duration))
     /\ At(trackAnalysis["tatums"], tatum.index).start = tatum.start

\* C13 as stated: tatum starts are cumulative from 0 with durations exactly
\* base*2/3 at even i and base*1/3 at odd i; after build(2000) a progress of
\* 1000 resolves to the tatum whose span contains it.
C13_CumulativeTatums ==
  \A base \in Bases :
    BuiltFrom(base) =>
      /\ CumulativeTatums
      /\ \A i \in 0..(Len(trackAnalysis["tatums"]) - 1) :
           At(trackAnalysis["tatums"], i).duration = TatumShare(base, i)
      /\ (IntervalsResolved /\ trackProgress = Num(1000)) => TatumSpansProgress

\* C13 amended: the durations are base*2/3 and base*1/3 rounded to the
\* nearest integer (1333 and 667 for base 2000).
C13_CumulativeRoundedTatums ==
  \A base \in Bases :
    BuiltFrom(base) =>
      /\ CumulativeTatums
      /\ \A i \in 0..(Len(trackAnalysis["tatums"]) - 1) :
           IsRounded(At(trackAnalysis["tatums"], i).duration, TatumShare(base, i))
      /\ (IntervalsResolved /\ trackProgress = Num(1000)) => TatumSpansProgress

\* C13 witness: build(2000), a tick at progress 1000, the first tatum
\* (0 to 1333) active
C13_Witness ==
  /\ BuiltFrom(2000)
  /\ IntervalsResolved
  /\ trackProgress = Num(1000)
  /\ activeIntervals["tatums"].index = 0
  /\ activeIntervals["tatums"].duration = Num(1333)
  /\ At(trackAnalysis["tatums"], 2).start = Num(2000)

\* the getter isActive
isActive == active = TRUE

\* C14: the driver is active when the constructor returns and no operation
\* (tick, registerQueue, resetVolumeQueues, on, watch) makes it inactive:
\* isActive holds in every state.
C14_AlwaysActive == isActive

\* C14 witness: still active after ticks, a registration, a reset, a hook
\* and a watcher
C14_Witness ==
  /\ isActive
  /\ ticks >= 2
  /\ lastCall.op = "resetVolumeQueues"
  /\ DOMAIN volumeQueues # {}
  /\ HookCount >= 1
  /\ \E k \in 1..Len(watchers["active"]) : watchers["active"][k] = "cb"

\* C19: once a Visualizer made without a parent and with syncOnly = false is
\* constructed and its Looper is active, sketch.start() has been invoked.
C19_SketchStartedWhenActive ==
  (pc # "constructing" /\ sketch.created /\ isActive) => sketch.starts >= 1

\* loudness at progress p of segment index of a sequence, 0 for the last one
LoudnessAt(segments, index, p) ==
  LET segment == At(segments, index)
  IN IF index = Len(segments) - 1 THEN Zero
     ELSE Loudness(segment @@ [elapsed |-> Sub(p, segment.start)],
                   At(segments, index + 1).loudness_start)

\* C15: a tick computes trackProgress = now - initialStart +
\* initialTrackProgress, then resolves the intervals, then samples the
\* volume: the sample pushed to the queues comes from the segment resolved
\* on that tick, with elapsed = that tick's trackProgress - segment start and
\* progress = elapsed / duration.
C15_SampleSeesCurrentFrame ==
  LET expected == Add(Sub(Num(now), initialStart), initialTrackProgress)
      segments == trackAnalysis["segments"]
      segment == activeIntervals["segments"]
      index == determineInterval(segments, expected)
  IN /\ pc \in {"intervals", "queues"} => (trackProgress = expected /\ sampled = 0)
     /\ (pc = "queues" \/ (pc = "idle" /\ ticks > 0)) =>
          /\ trackProgress = expected
          /\ segment.index = index
          /\ segment.start = At(segments, index).start
          /\ segment.elapsed = Sub(expected, At(segments, index).start)
          /\ segment.progress = Div(Sub(expected, At(segments, index).start),
                                    At(segments, index).duration)
     /\ (pc = "idle" /\ ticks > 0) =>
          /\ sample = LoudnessAt(segments, index, expected)
          /\ \A name \in DOMAIN volumeQueues :
               Pushed(name) >= 1 => volumeQueues[name].values[1] = sample

\* C15 witness: a tick on which the segment changed to one with a successor,
\* and a queue that received its interpolated loudness
C15_Witness ==
  /\ pc = "idle" /\ ticks >= 2
  /\ activeIntervals["segments"].index # prevIndex["segments"]
  /\ prevIndex["segments"] # NoIndex
  /\ activeIntervals["segments"].index < Len(trackAnalysis["segments"]) - 1
  /\ sample # Zero
  /\ \E name \in DOMAIN volumeQueues :
       Pushed(name) >= 1 /\ volumeQueues[name].values[1] = sample

\* x lies between a and b, whichever is the smaller
Between(a, x, b) == (Le(a, x) /\ Le(x, b)) \/ (Le(b, x) /\ Le(x, a))

InFirstPhase(interval) == Lt(interval.elapsed, interval.loudness_max_time)

\* C16: when a successor segment exists, getVolume returns a defined number
\* between loudness_start and loudness_max while elapsed < loudness_max_time
\* and between loudness_max and the successor's loudness_start otherwise,
\* for every elapsed value and for loudness_max_time equal to 0 or to the
\* duration; within a phase a larger elapsed never moves the result back
\* towards the phase's first endpoint.
C16_VolumeWithinPhase ==
  lastCall.op = "getVolume" =>
    LET interval == lastCall.interval
        segments == trackAnalysis["segments"]
        next == At(segments, interval.index + 1).loudness_start
        first == IF InFirstPhase(interval) THEN interval.loudness_start
                 ELSE interval.loudness_max
        second == IF InFirstPhase(interval) THEN interval.loudness_max ELSE next
    IN /\ IsFinite(lastCall.result)
       /\ Between(first, lastCall.result, second)
       /\ \A later \in VolumeIntervals :
            ( /\ [later EXCEPT !.elapsed = interval.elapsed,
                               !.progress = interval.progress] = interval
              /\ Lt(interval.elapsed, later.elapsed)
              /\ InFirstPhase(later) = InFirstPhase(interval) )
            => Between(lastCall.result, getVolume(later, segments), second)

\* one step leaves trackProgress and every resolved index where they were or
\* moves them forward
NeverBack ==
  /\ Le(trackProgress, trackProgress')
  /\ \A type \in TypeSet :
       activeIntervals[type].index # NoIndex
         => activeIntervals'[type].index >= activeIntervals[type].index

\* C17: over ticks with non-decreasing timestamps and no resynchronization,
\* trackProgress never decreases and, for each granularity, the active index
\* never decreases from one tick to the next.
C17_ProgressAndIndexNeverGoBack == [][NeverBack]_vars

\* p lies strictly inside interval i of a sequence
StrictlyInside(analysis, i, p) ==
  /\ Lt(At(analysis, i).start, p)
  /\ Lt(p, Add(At(analysis, i).start, At(analysis, i).duration))

\* C18: with the map synthesized by the constructor, after a tick whose
\* trackProgress lies strictly inside a segment other than the last, the
\* active segment is that one, its elapsed and progress are finite, and the
\* sample pushed to the queues is its interpolated loudness, a value in
\* [-30, -5], not the end-of-track 0.
C18_DefaultMapSegmentAndSample ==
  (pc = "idle" /\ ticks > 0) =>
    LET segments == trackAnalysis["segments"]
        segment == activeIntervals["segments"]
    IN \A i \in 0..(Len(segments) - 2) :
         StrictlyInside(segments, i, trackProgress) =>
           /\ segment.index = i
           /\ IsFinite(segment.elapsed) /\ IsFinite(segment.progress)
           /\ sample = LoudnessAt(segments, i, trackProgress)
           /\ Le(Num(-30), sample) /\ Le(sample, Num(-5))
           /\ \A name \in DOMAIN volumeQueues :
                Pushed(name) >= 1 => volumeQueues[name].values[1] = sample

====
